---------------------------- MODULE Spec2Model ----------------------------
(***************************************************************************)
(* A model of the three tutorial notebooks under src/python:               *)
(*                                                                         *)
(*   Convert_lsat_pathrow_latlon.ipynb   the WRS-2 path/row lookup         *)
(*   Ipyparallel_tutorial.ipynb          map_sync, apply_sync, @parallel   *)
(*   smap_to_raster.ipynb                smap2raster and its driver loop   *)
(*                                                                         *)
(* Each notebook is a state machine of its own (SpecLookup and its fair    *)
(* version FairLookup, SpecCluster, SpecRaster); the variables of the      *)
(* other notebooks stay idle.                                              *)
(***************************************************************************)
EXTENDS Integers, Sequences, FiniteSets, TLC

VARIABLES
    \* Convert_lsat_pathrow_latlon.ipynb
    layer,        \* the features of wrs.GetLayer(0), feature id k at layer[k+1]
    point,        \* shapely.geometry.Point(lon, lat), as <<lon, lat>>
    mode,         \* 'A' or 'D'
    i,            \* the scan index
    env,          \* the names the last cell has assigned: feature, path, row
    out,          \* what the cell has printed
    pc,           \* where the last cell is
    \* Ipyparallel_tutorial.ipynb
    squares,      \* the name squares: << >> until assigned, then <<value>>
    y,            \* the name y (an ndarray): << >> until assigned, then <<array>>
    x,            \* the name x (np.matrix(y)): << >> until assigned
    res,          \* the name res: << >> until assigned, then <<value>>
    tasks,        \* the arguments the running call sent to each engine
    results,      \* each engine's reply: << >> while it runs, then <<value>>
    order,        \* the engines in the order they replied to the last call
    outstanding,  \* the engines the running call still waits for
    cpc,          \* the notebook's position
    \* smap_to_raster.ipynb
    h5,           \* the SMAP file: the array at each path
    fs,           \* the .tif files of the working directory, by name
    di,           \* the driver loop's index into datasets (Python's i)
    loc,          \* smap2raster's locals
    raster,       \* the open raster object: << >> or <<dataset>>
    rpc           \* where the running smap2raster call is

lookupVars == <<layer, point, mode, i, env, out, pc>>
clusterVars == <<squares, y, x, res, tasks, results, order, outstanding, cpc>>

rasterVars == <<h5, fs, di, loc, raster, rpc>>

vars == <<lookupVars, clusterVars, rasterVars>>

-----------------------------------------------------------------------------
(* Convert_lsat_pathrow_latlon.ipynb                                        *)

\* The longest layer the model enumerates.
MaxFeatures == 3

\* Footprints of scenes: axis-aligned boxes [xmin, ymin, xmax, ymax].  The two
\* overlap, as neighbouring WRS-2 scenes do.
Footprints ==
    { [xmin |-> 0, ymin |-> 0, xmax |-> 3, ymax |-> 3],
      [xmin |-> 1, ymin |-> 1, xmax |-> 4, ymax |-> 4] }

\* (PATH, ROW) pairs of the scenes the model enumerates.
Scenes == { <<34, 32>>, <<35, 33>> }

Modes == {"A", "D"}

\* Query points: inside the first box only (and on the second's edge), inside
\* both, inside the second only (and on the first's edge), outside both.
Points == { <<1, 1>>, <<2, 2>>, <<3, 3>>, <<5, 5>> }

Features ==
    { [geom |-> g, MODE |-> m, PATH |-> s[1], ROW |-> s[2]] :
        g \in Footprints, m \in Modes, s \in Scenes }

SeqsUpTo(S, n) == UNION { [1..k -> S] : k \in 0..n }

\* Python's None, where a feature is expected.
None == [none |-> TRUE]

\* layer.GetFeature(i): the feature with id i, None when there is none.
GetFeature(idx) ==
    IF idx \in 0..(Len(layer) - 1) THEN layer[idx + 1] ELSE None

\* feature.GetGeometryRef()
GetGeometryRef(f) == f.geom

\* geom.ExportToWkt(): the polygon's closed ring of corners.
ExportToWkt(g) ==
    << <<g.xmin, g.ymin>>, <<g.xmax, g.ymin>>, <<g.xmax, g.ymax>>,
       <<g.xmin, g.ymax>>, <<g.xmin, g.ymin>> >>

\* shapely.wkt.loads(wkt): the polygon of the ring, as its set of corners.
loads(wkt) == { wkt[k] : k \in 1..Len(wkt) }

\* point.within(shape): the point lies in the interior; a point on the boundary
\* is not within.
within(p, shape) ==
    /\ \E c \in shape : c[1] < p[1]
    /\ \E c \in shape : c[1] > p[1]
    /\ \E c \in shape : c[2] < p[2]
    /\ \E c \in shape : c[2] > p[2]

\* checkPoint with the mode test left out.
checkPointAnyMode(f, p, m) ==
    LET geom  == GetGeometryRef(f)
        shape == loads(ExportToWkt(geom))
    IN  within(p, shape)

\* checkPoint with "or" for "and".
checkPointEither(f, p, m) ==
    LET geom  == GetGeometryRef(f)
        shape == loads(ExportToWkt(geom))
    IN  within(p, shape) \/ f.MODE = m

\* checkPoint(feature, point, mode), for a feature that is not None.
checkPoint(f, p, m) ==
    LET geom  == GetGeometryRef(f)
        shape == loads(ExportToWkt(geom))
    IN  IF within(p, shape) /\ f.MODE = m THEN TRUE ELSE FALSE

\* checkPoint(None, ...) raises AttributeError at feature.GetGeometryRef().
checkPointRaises(f) == f = None

LookupIdle ==
    /\ layer = << >> /\ point = <<0, 0>> /\ mode = "D" /\ i = 0
    /\ env = << >> /\ out = << >> /\ pc = "idle"

ClusterIdle ==
    /\ squares = << >> /\ y = << >> /\ x = << >> /\ res = << >>
    /\ tasks = << >> /\ results = << >> /\ order = << >>
    /\ outstanding = {} /\ cpc = "idle"

RasterIdle ==
    /\ h5 = << >> /\ fs = << >> /\ di = 0 /\ loc = << >> /\ raster = << >>
    /\ rpc = "idle"

InitLookup ==
    /\ ClusterIdle
    /\ RasterIdle
    /\ layer \in SeqsUpTo(Features, MaxFeatures)
    /\ point \in Points
    /\ mode \in Modes
    /\ i = 0
    /\ env = << >>
    /\ out = << >>
    /\ pc = "while"

\* The loop body without its increment.
ScanStuck ==
    /\ pc = "while"
    /\ ~checkPointRaises(GetFeature(i))
    /\ ~checkPoint(GetFeature(i), point, mode)
    /\ i' = i
    /\ UNCHANGED <<layer, point, mode, env, out, pc, clusterVars, rasterVars>>

\* while not checkPoint(layer.GetFeature(i), point, mode): i += 1
ScanMiss ==
    /\ pc = "while"
    /\ ~checkPointRaises(GetFeature(i))
    /\ ~checkPoint(GetFeature(i), point, mode)
    /\ i' = i + 1
    /\ UNCHANGED <<layer, point, mode, env, out, pc, clusterVars, rasterVars>>

\* The loop condition is false: the loop stops at i.
ScanHit ==
    /\ pc = "while"
    /\ ~checkPointRaises(GetFeature(i))
    /\ checkPoint(GetFeature(i), point, mode)
    /\ pc' = "stopped"
    /\ UNCHANGED <<layer, point, mode, i, env, out, clusterVars, rasterVars>>

\* The loop condition raises: the cell ends there.
ScanRaise ==
    /\ pc = "while"
    /\ checkPointRaises(GetFeature(i))
    /\ pc' = "error"
    /\ UNCHANGED <<layer, point, mode, i, env, out, clusterVars, rasterVars>>

\* feature = layer.GetFeature(i); path = feature['PATH']; row = feature['ROW']
Assign ==
    /\ pc = "stopped"
    /\ LET f == GetFeature(i)
       IN  env' = [n \in {"feature", "path", "row"} |->
                     CASE n = "feature" -> f
                       [] n = "path"    -> f.PATH
                       [] n = "row"     -> f.ROW]
    /\ pc' = "assigned"
    /\ UNCHANGED <<layer, point, mode, i, out, clusterVars, rasterVars>>

\* print('Path: ', path, 'Row: ', row)
PrintPathRow ==
    /\ pc = "assigned"
    /\ out' = Append(out, <<"Path: ", env["path"], "Row: ", env["row"]>>)
    /\ pc' = "done"
    /\ UNCHANGED <<layer, point, mode, i, env, clusterVars, rasterVars>>

NextLookup == ScanMiss \/ ScanHit \/ ScanRaise \/ Assign \/ PrintPathRow

SpecLookup == InitLookup /\ [][NextLookup]_vars

\* The cell runs to its end or to its error: the kernel does not stop mid-cell.
FairLookup == SpecLookup /\ WF_vars(NextLookup)

-----------------------------------------------------------------------------
(* Ipyparallel_tutorial.ipynb                                               *)

\* !ipcluster start -n 4
NumEngines == 4

\* range(1,28)
RangeStart == 1
RangeStop == 28

\* y = np.random.randn(50,50) is modelled by MatN x MatN arrays over MatValues.
MatN == 2
MatValues == {-1, 2}

Engines == 1..NumEngines

\* Python's range(lo, hi): lo, lo+1, ..., hi-1.
Range(lo, hi) == [k \in 1..(IF hi > lo THEN hi - lo ELSE 0) |-> lo + k - 1]

\* lambda x: x**2
Square(v) == v * v

\* The engine's side of map: list(map(f, chunk)).
MapSquare(chunk) == [k \in 1..Len(chunk) |-> Square(chunk[k])]

RECURSIVE Concat(_)
Concat(ss) == IF ss = << >> THEN << >> ELSE Head(ss) \o Concat(Tail(ss))

RECURSIVE Sum(_)
Sum(s) == IF s = << >> THEN 0 ELSE Head(s) + Sum(Tail(s))

RECURSIVE MonotoneSeqs(_, _, _)
MonotoneSeqs(k, lo, hi) ==
    IF k = 0 THEN { << >> }
    ELSE UNION { { <<a>> \o s : s \in MonotoneSeqs(k - 1, a, hi) } : a \in lo..hi }

\* The ways a sequence of n elements is cut into NumEngines contiguous chunks
\* (chunk p is elements cuts[p]+1 .. cuts[p+1]); a chunk may be empty.
Cuts(n) == { <<0>> \o s \o <<n>> : s \in MonotoneSeqs(NumEngines - 1, 0, n) }

\* Engine p's chunk of seq.
getPartition(seq, cuts, p) == SubSeq(seq, cuts[p] + 1, cuts[p + 1])

\* The chunks' results put together in the order the engines replied.
joinByCompletion(r, ord) == Concat([k \in 1..Len(ord) |-> r[ord[k]][1]])

\* The chunks' results put together in the engines' order.
joinPartitions(r, ord) == Concat([e \in Engines |-> r[e][1]])

\* A Python list, an ndarray and an np.matrix: the type and the elements (of an
\* array, its rows).
list(elems) == [kind |-> "list", data |-> elems]
ndarray(rows) == [kind |-> "ndarray", data |-> rows]
matrix(rows) == [kind |-> "matrix", data |-> rows]

Arrays(n) == [1..n -> [1..n -> MatValues]]

\* a * b on ndarrays: the element-wise product.
Multiply(a, b) ==
    [r \in 1..Len(a) |-> [c \in 1..Len(a[r]) |-> a[r][c] * b[r][c]]]

\* a * b on np.matrix: the matrix product (rows of a by columns of b).
MatrixProduct(a, b) ==
    [r \in 1..Len(a) |->
        [c \in 1..Len(b[1]) |->
            Sum([k \in 1..Len(b) |-> a[r][k] * b[k][c]])]]

\* Python's x*y, by the operands' type.
Mul(a, b) ==
    IF a.kind = "matrix"
    THEN matrix(MatrixProduct(a.data, b.data))
    ELSE ndarray(Multiply(a.data, b.data))

\* matmul as if * were element-wise on np.matrix too.
matmulElementwise(a, b) == matrix(Multiply(a.data, b.data))

\* def matmul(x, y): return x*y
matmul(a, b) == Mul(a, b)

\* def arrmul(x,y): return x*y
arrmul(a, b) == Mul(a, b)

AllPending == [e \in Engines |-> << >>]

InitCluster ==
    /\ LookupIdle
    /\ RasterIdle
    /\ squares = << >> /\ y = << >> /\ x = << >> /\ res = << >>
    /\ tasks = << >> /\ results = << >> /\ order = << >>
    /\ outstanding = {}
    /\ cpc = "cell3"

\* c.map_sync(lambda x: x**2, range(1,28)): each engine is sent its chunk.
MapSubmit ==
    /\ cpc = "cell3"
    /\ LET seq == Range(RangeStart, RangeStop)
       IN  \E cuts \in Cuts(Len(seq)) :
              tasks' = [e \in Engines |-> <<"map", getPartition(seq, cuts, e)>>]
    /\ results' = AllPending
    /\ order' = << >>
    /\ outstanding' = Engines
    /\ cpc' = "map_sync"
    /\ UNCHANGED <<squares, y, x, res, lookupVars, rasterVars>>

\* What an engine computes for a task.
Run(task) ==
    CASE task[1] = "map"    -> MapSquare(task[2])
      [] task[1] = "matmul" -> matmul(task[2], task[3])
      [] task[1] = "arrmul" -> arrmul(task[2], task[3]).data

\* An engine finishes its task and replies; the engines run in any order.
EngineReply(e) ==
    /\ e \in outstanding
    /\ results' = [results EXCEPT ![e] = <<Run(tasks[e])>>]
    /\ order' = Append(order, e)
    /\ outstanding' = outstanding \ {e}
    /\ UNCHANGED <<squares, y, x, res, tasks, cpc, lookupVars, rasterVars>>

\* map_sync returns; print('squares:',squares)
MapReturn ==
    /\ cpc = "map_sync"
    /\ outstanding = {}
    /\ squares' = <<list(joinPartitions(results, order))>>
    /\ tasks' = << >> /\ results' = << >>
    /\ cpc' = "cell4"
    /\ UNCHANGED <<y, x, res, order, outstanding, lookupVars, rasterVars>>

\* y = np.random.randn(50,50); x = np.matrix(y); c.apply_sync(matmul, x, x):
\* every engine of the view is sent the whole call.
ApplySubmit ==
    /\ cpc = "cell4"
    /\ \E a \in Arrays(MatN) :
          /\ y' = <<ndarray(a)>>
          /\ x' = <<matrix(a)>>
          /\ tasks' = [e \in Engines |-> <<"matmul", matrix(a), matrix(a)>>]
    /\ results' = AllPending
    /\ order' = << >>
    /\ outstanding' = Engines
    /\ cpc' = "apply_sync"
    /\ UNCHANGED <<squares, res, lookupVars, rasterVars>>

\* apply_sync returns the engines' results, one per engine of the view.
ApplyReturn ==
    /\ cpc = "apply_sync"
    /\ outstanding = {}
    /\ res' = <<list([e \in Engines |-> results[e][1]])>>
    /\ tasks' = << >> /\ results' = << >>
    /\ cpc' = "cell5"
    /\ UNCHANGED <<squares, y, x, order, outstanding, lookupVars, rasterVars>>

\* The parallel call with only its first argument cut into chunks.
ArrmulSubmitOneWhole ==
    /\ cpc = "cell5"
    /\ LET a == y[1].data
       IN  \E cuts \in Cuts(Len(a)) :
              tasks' = [e \in Engines |->
                          <<"arrmul", ndarray(getPartition(a, cuts, e)), ndarray(a)>>]
    /\ results' = AllPending
    /\ order' = << >>
    /\ outstanding' = Engines
    /\ cpc' = "arrmul"
    /\ UNCHANGED <<squares, y, x, res, lookupVars, rasterVars>>

\* arrmul(y, y) under @c.parallel(block=True): each engine is sent its chunk
\* of both arrays and calls arrmul on the two chunks.
ArrmulSubmit ==
    /\ cpc = "cell5"
    /\ LET a == y[1].data
       IN  \E cuts \in Cuts(Len(a)) :
              tasks' = [e \in Engines |->
                          <<"arrmul", ndarray(getPartition(a, cuts, e)),
                                      ndarray(getPartition(a, cuts, e))>>]
    /\ results' = AllPending
    /\ order' = << >>
    /\ outstanding' = Engines
    /\ cpc' = "arrmul"
    /\ UNCHANGED <<squares, y, x, res, lookupVars, rasterVars>>

\* The parallel function returns the chunks' results put together.
ArrmulReturn ==
    /\ cpc = "arrmul"
    /\ outstanding = {}
    /\ res' = <<ndarray(joinPartitions(results, order))>>
    /\ tasks' = << >> /\ results' = << >>
    /\ cpc' = "end"
    /\ UNCHANGED <<squares, y, x, order, outstanding, lookupVars, rasterVars>>

NextCluster ==
    \/ MapSubmit
    \/ \E e \in Engines : EngineReply(e)
    \/ MapReturn
    \/ ApplySubmit
    \/ ApplyReturn
    \/ ArrmulSubmit
    \/ ArrmulReturn

SpecCluster == InitCluster /\ [][NextCluster]_vars

-----------------------------------------------------------------------------
(* smap_to_raster.ipynb                                                     *)

\* The largest array shape the model enumerates.
MaxRows == 2
MaxCols == 2

\* datasets = ['sm_surface_wetness', 'soil_temp_layer2']
datasets == <<"sm_surface_wetness", "soil_temp_layer2">>

\* which_group = 'Geophysical_Data'
which_group == "Geophysical_Data"

\* The arrays of one shape the model enumerates: constant, and two in which
\* every cell's value tells its row and its column.
Grids(rows, cols) ==
    { [r \in 1..rows |-> [c \in 1..cols |-> 0]],
      [r \in 1..rows |-> [c \in 1..cols |-> 10 * r + c]],
      [r \in 1..rows |-> [c \in 1..cols |-> 0 - (10 * c + r)]] }

\* SMAP's cell_lat and cell_lon: latitude falls with the row, longitude grows
\* with the column.
CellLat(rows, cols) == [r \in 1..rows |-> [c \in 1..cols |-> 90 - 10 * r]]
CellLon(rows, cols) == [r \in 1..rows |-> [c \in 1..cols |-> 10 * c - 180]]

\* group + '/' + dataset
DatasetPath(group, dataset) == group \o "/" \o dataset

\* The SMAP files the model enumerates, each the arrays at its paths: the two
\* datasets of the group and the coordinates, all on the file's one grid.
SmapFiles ==
    UNION { { [p \in {"cell_lat", "cell_lon",
                      DatasetPath(which_group, datasets[1]),
                      DatasetPath(which_group, datasets[2])} |->
                CASE p = "cell_lat" -> CellLat(rows, cols)
                  [] p = "cell_lon" -> CellLon(rows, cols)
                  [] p = DatasetPath(which_group, datasets[1]) -> g1
                  [] OTHER -> g2] :
                g1 \in Grids(rows, cols), g2 \in Grids(rows, cols) } :
            rows \in 1..MaxRows, cols \in 1..MaxCols }

\* np_data.shape
shape(a) == <<Len(a), Len(a[1])>>

Cells(a) == { a[r][c] : r \in 1..Len(a), c \in 1..Len(a[1]) }

\* ndarray.min(), ndarray.max()
min(a) == CHOOSE v \in Cells(a) : \A w \in Cells(a) : v <= w
max(a) == CHOOSE v \in Cells(a) : \A w \in Cells(a) : v >= w

\* A float that is a ratio of integers, as <<numerator, denominator>>.
float(k) == <<k, 1>>

\* int(f): truncation toward zero.
int(f) ==
    IF f[1] >= 0 THEN f[1] \div f[2] ELSE 0 - ((0 - f[1]) \div f[2])

\* a / b for a number a and a float b.
Divide(a, b) == <<a * b[2], b[1]>>

\* -f
Negate(f) == <<0 - f[1], f[2]>>

\* A value stored as GDT_Float32: integers up to 2^24 in size are kept, larger
\* ones lose their low bit.
ToFloat32(v) ==
    IF v <= 16777216 /\ v >= 0 - 16777216 THEN v
    ELSE IF v > 0 THEN 2 * (v \div 2) ELSE 0 - 2 * ((0 - v) \div 2)

\* dataset+'Raster.tif'
RasterName(dataset) == dataset \o "Raster.tif"

\* Create with the width and the height taken for one another.
CreateSwapped(name, xsize, ysize, bands, dtype) ==
    [name |-> name, RasterXSize |-> ysize, RasterYSize |-> xsize,
     RasterCount |-> bands, dtype |-> dtype,
     geotransform |-> <<0, 1, 0, 0, 0, 1>>, projection |-> "",
     band |-> [b \in 1..bands |-> [r \in 1..xsize |-> [c \in 1..ysize |-> 0]]]]

\* driver.Create(name, xsize, ysize, bands, dtype): a raster xsize wide and
\* ysize high, its bands zero, with the default geotransform and no projection.
Create(name, xsize, ysize, bands, dtype) ==
    [name |-> name, RasterXSize |-> xsize, RasterYSize |-> ysize,
     RasterCount |-> bands, dtype |-> dtype,
     geotransform |-> <<0, 1, 0, 0, 0, 1>>, projection |-> "",
     band |-> [b \in 1..bands |-> [r \in 1..ysize |-> [c \in 1..xsize |-> 0]]]]

\* The file of a raster object, as the GTiff driver writes it.
Flush(ds, files) ==
    [f \in (DOMAIN files) \cup {ds.name} |-> IF f = ds.name THEN ds ELSE files[f]]

\* raster.GetRasterBand(b).WriteArray(a): a[r][c] goes to line r, pixel c.
WriteArray(ds, b, a) ==
    [ds EXCEPT !.band[b] =
        [r \in 1..ds.RasterYSize |-> [c \in 1..ds.RasterXSize |->
            IF r <= Len(a) /\ c <= Len(a[1]) THEN ToFloat32(a[r][c]) ELSE @[r][c]]]]

\* WriteArray raises when the array does not fit the raster.
WriteArrayFits(ds, a) ==
    Len(a) <= ds.RasterYSize /\ Len(a[1]) <= ds.RasterXSize

InitRaster ==
    /\ LookupIdle
    /\ ClusterIdle
    /\ h5 \in SmapFiles
    /\ fs = << >>
    /\ di = 0
    /\ loc = << >>
    /\ raster = << >>
    /\ rpc = "for"

\* for i in range(0, len(datasets)): smap2raster(file_path, which_group, datasets[i])
\* and, in the call, h5py.File, the three h5File.get and np.array, and the extents.
ReadData ==
    /\ rpc = "for"
    /\ di < Len(datasets)
    /\ LET dataset == datasets[di + 1]
           np_data == h5[DatasetPath(which_group, dataset)]
           np_lat  == h5["cell_lat"]
           np_lon  == h5["cell_lon"]
           num_cols == float(shape(np_data)[2])
           num_rows == float(shape(np_data)[1])
           xmin == min(np_lon)
           xmax == max(np_lon)
           ymin == min(np_lat)
           ymax == max(np_lat)
           xres == Divide(xmax - xmin, num_cols)
           yres == Divide(ymax - ymin, num_rows)
       IN  loc' = [dataset |-> dataset, np_data |-> np_data,
                   num_cols |-> num_cols, num_rows |-> num_rows,
                   geotransform |-> <<xmin, xres, 0, ymax, 0, Negate(yres)>>]
    /\ rpc' = "create"
    /\ UNCHANGED <<h5, fs, di, raster, lookupVars, clusterVars>>

\* raster = driver.Create(dataset+'Raster.tif', int(num_cols), int(num_rows), 1,
\*                        gdal.GDT_Float32): the file is created with the object.
CreateRaster ==
    /\ rpc = "create"
    /\ LET ds == Create(RasterName(loc.dataset), int(loc.num_cols),
                        int(loc.num_rows), 1, "Float32")
       IN  /\ raster' = <<ds>>
           /\ fs' = Flush(ds, fs)
    /\ rpc' = "georeference"
    /\ UNCHANGED <<h5, di, loc, lookupVars, clusterVars>>

\* raster.SetGeoTransform(geotransform); srs.ImportFromEPSG(4326);
\* raster.SetProjection(srs.ExportToWkt())
Georeference ==
    /\ rpc = "georeference"
    /\ raster' = <<[raster[1] EXCEPT !.geotransform = loc.geotransform,
                                     !.projection = "EPSG:4326"]>>
    /\ rpc' = "write"
    /\ UNCHANGED <<h5, fs, di, loc, lookupVars, clusterVars>>

\* raster.GetRasterBand(1).WriteArray(np_data)
WriteBand ==
    /\ rpc = "write"
    /\ IF WriteArrayFits(raster[1], loc.np_data)
       THEN /\ raster' = <<WriteArray(raster[1], 1, loc.np_data)>>
            /\ rpc' = "close"
       ELSE /\ rpc' = "error"
            /\ UNCHANGED raster
    /\ UNCHANGED <<h5, fs, di, loc, lookupVars, clusterVars>>

\* h5File.close() and the return: the raster object goes out of scope, which
\* writes it to its file; the loop moves on.
Return ==
    /\ rpc = "close"
    /\ fs' = Flush(raster[1], fs)
    /\ raster' = << >>
    /\ loc' = << >>
    /\ di' = di + 1
    /\ rpc' = "for"
    /\ UNCHANGED <<h5, lookupVars, clusterVars>>

\* The loop is over.
LoopEnd ==
    /\ rpc = "for"
    /\ di = Len(datasets)
    /\ rpc' = "end"
    /\ UNCHANGED <<h5, fs, di, loc, raster, lookupVars, clusterVars>>

NextRaster ==
    ReadData \/ CreateRaster \/ Georeference \/ WriteBand \/ Return \/ LoopEnd

SpecRaster == InitRaster /\ [][NextRaster]_vars

-----------------------------------------------------------------------------
(* The claims: Convert_lsat_pathrow_latlon.ipynb                            *)

\* The point lies strictly inside the feature's footprint.
Contains(f) ==
    /\ f.geom.xmin < point[1] /\ point[1] < f.geom.xmax
    /\ f.geom.ymin < point[2] /\ point[2] < f.geom.ymax

\* The feature contains the query point and has the requested mode.
Matches(f) == Contains(f) /\ f.MODE = mode

HasMatch == \E k \in 1..Len(layer) : Matches(layer[k])

Stopped == pc \in {"stopped", "assigned", "done"}

\* C1: whenever the scan loop has stopped at index i, feature i contains the
\* point and has the requested mode, no feature with a smaller index does, and
\* what is printed is the PATH and ROW of feature i.
C1_StopsAtFirstMatch ==
    /\ Stopped =>
          /\ i \in 0..(Len(layer) - 1)
          /\ Matches(layer[i + 1])
          /\ \A j \in 1..i : ~Matches(layer[j])
    /\ pc = "done" =>
          out = << <<"Path: ", layer[i + 1].PATH, "Row: ", layer[i + 1].ROW>> >>
    /\ pc # "done" => out = << >>

\* C1's case: the scan passed a feature with the point but the other mode,
\* stopped at the next one and printed it, with a later match of another scene
\* left unread.
C1_Witness ==
    /\ pc = "done"
    /\ i = 1
    /\ Len(layer) = 3
    /\ Contains(layer[1]) /\ layer[1].MODE # mode
    /\ Matches(layer[3])
    /\ layer[3].PATH # layer[2].PATH
    /\ layer[1].ROW # layer[2].ROW

\* C2 as stated: for every layer, point and mode the loop finds a feature,
\* stops and prints a path and row.
C2_AlwaysFindsAndPrints == <>(pc = "done")

\* C2, amended: the cell always comes to an end; it ends with the path and row
\* printed when some feature contains the point and has the mode, and it ends
\* in the error otherwise.
C2_TerminatesFoundOrError ==
    <>(\/ HasMatch /\ pc = "done" /\ Len(out) = 1
       \/ ~HasMatch /\ pc = "error" /\ Len(out) = 0)

\* C2's case: a layer of three features, one of them with the point but in the
\* other mode, scanned to its end without a match.
C2_Witness ==
    /\ pc = "error"
    /\ Len(layer) = 3
    /\ i = 3
    /\ \E k \in 1..3 : Contains(layer[k])

\* C8: when no feature both contains the point and has the requested mode, the
\* scan never stops at a feature, it ends in the error raised once the index
\* has passed the last feature, path and row stay unassigned and nothing is
\* printed.
C8_NoMatchEndsInError ==
    /\ [](~HasMatch =>
            /\ ~Stopped
            /\ i <= Len(layer)
            /\ (pc = "error" => i = Len(layer))
            /\ DOMAIN env = {}
            /\ out = << >>)
    /\ <>(HasMatch \/ pc = "error")

\* C8's case: no feature matches, though the first has the requested mode and
\* the second contains the point, and the cell has ended in the error.
C8_Witness ==
    /\ pc = "error"
    /\ Len(layer) = 2
    /\ layer[1].MODE = mode /\ ~Contains(layer[1])
    /\ Contains(layer[2]) /\ layer[2].MODE # mode

-----------------------------------------------------------------------------
(* The claims: Ipyparallel_tutorial.ipynb                                   *)

MapReturned == cpc \notin {"cell3", "map_sync"}

\* C3: the map_sync job calculates the square of each number from 1 to 28: the
\* returned list holds x**2 for every integer x with 1 <= x <= 28.
C3_SquaresOf1To28 ==
    MapReturned =>
        \A v \in 1..28 :
            \E k \in 1..Len(squares[1].data) : squares[1].data[k] = v * v

\* C4: map_sync returns the results in input order whatever the partition and
\* the order the engines finish in: element k of the list is the function of
\* element k of the input; and it returns only once every engine has finished.
C4_MapInInputOrder ==
    /\ ~MapReturned => squares = << >>
    /\ MapReturned =>
          /\ squares[1].kind = "list"
          /\ Len(squares[1].data) = RangeStop - RangeStart
          /\ \A k \in 1..Len(squares[1].data) :
                squares[1].data[k] = (RangeStart + k - 1) * (RangeStart + k - 1)
    /\ cpc = "cell4" => outstanding = {}

\* C4's case: map_sync has returned after the engines replied in the reverse
\* of their order.
C4_Witness ==
    /\ cpc = "cell4"
    /\ squares # << >>
    /\ order = <<4, 3, 2, 1>>

\* apply_sync has returned and res is not yet assigned anew.
ApplyReturned == cpc = "cell5"

\* C6 as stated: once apply_sync has returned, res is the product x*x.
C6_ResIsTheProduct ==
    ApplyReturned =>
        /\ res[1].kind = "matrix"
        /\ res[1].data = MatrixProduct(x[1].data, x[1].data)

\* C6, amended: apply_sync returns only once every engine has finished, and
\* res is a list with one entry for each engine of the view, each entry the
\* matrix product x*x.
C6_ResIsProductPerEngine ==
    /\ cpc \in {"cell3", "map_sync", "cell4", "apply_sync"} => res = << >>
    /\ ApplyReturned =>
          /\ outstanding = {}
          /\ res[1].kind = "list"
          /\ Len(res[1].data) = NumEngines
          /\ \A e \in 1..NumEngines :
                /\ res[1].data[e].kind = "matrix"
                /\ res[1].data[e].data = MatrixProduct(x[1].data, x[1].data)

\* C6's case: apply_sync has returned, for a matrix whose product with itself
\* is not its element-wise square.
C6_Witness ==
    /\ cpc = "cell5"
    /\ order = <<2, 4, 1, 3>>
    /\ MatrixProduct(x[1].data, x[1].data) # Multiply(x[1].data, x[1].data)

\* C5: arrmul returns the element-wise product of its two whole input arrays:
\* the result has the input's length and element k is x[k]*y[k] (both inputs
\* are y here), whatever the partition across the engines.
C5_ArrmulIsElementwise ==
    cpc = "end" =>
        /\ outstanding = {}
        /\ res[1].kind = "ndarray"
        /\ Len(res[1].data) = Len(y[1].data)
        /\ \A r \in 1..Len(y[1].data) :
              /\ Len(res[1].data[r]) = Len(y[1].data[r])
              /\ \A c \in 1..Len(y[1].data[r]) :
                    res[1].data[r][c] = y[1].data[r][c] * y[1].data[r][c]

\* C5's case: arrmul has returned for an array whose rows differ, the engines
\* having replied out of order.
C5_Witness ==
    /\ cpc = "end"
    /\ order = <<3, 1, 4, 2>>
    /\ y[1].data[1] # y[1].data[2]
    /\ res[1].data[1] # res[1].data[2]

-----------------------------------------------------------------------------
(* The claims: smap_to_raster.ipynb                                         *)

\* The array of datasets[k] in the SMAP file.
DataOf(k) == h5["Geophysical_Data/" \o datasets[k]]

\* The file smap2raster wrote for datasets[k] is as C7 says.
RasterFileOf(k, written) ==
    LET name == datasets[k] \o "Raster.tif"
        data == DataOf(k)
    IN  /\ name \in DOMAIN fs
        /\ fs[name].RasterCount = 1
        /\ fs[name].RasterXSize = Len(data[1])
        /\ fs[name].RasterYSize = Len(data)
        /\ DOMAIN fs[name].band = {1}
        /\ written =>
              \A r \in 1..Len(data) : \A c \in 1..Len(data[1]) :
                  fs[name].band[1][r][c] = data[r][c]

\* C7: each smap2raster call leaves one file, dataset + 'Raster.tif', with
\* exactly 1 band, as wide as the array has columns and as high as it has rows,
\* whose band 1 holds the dataset's values at their rows and columns; the call
\* does not fail.
C7_RasterFile ==
    /\ rpc # "error"
    /\ \A k \in 1..di : RasterFileOf(k, TRUE)
    /\ rpc \in {"georeference", "write", "close"} => RasterFileOf(di + 1, FALSE)
    /\ Cardinality(DOMAIN fs) =
          di + (IF rpc \in {"georeference", "write", "close"} THEN 1 ELSE 0)

\* C7's case: both calls have returned, for arrays that are not square and
\* whose cells differ.
C7_Witness ==
    /\ rpc = "end"
    /\ di = 2
    /\ Len(DataOf(1)) # Len(DataOf(1)[1])
    /\ Cardinality(Cells(DataOf(1))) > 1
    /\ Cardinality(Cells(DataOf(2))) > 1
    /\ DataOf(1) # DataOf(2)

=============================================================================
